---- MODULE Spec2Model ----
(***************************************************************************)
(* A model of wendal/h264_to_mp4:                                          *)
(*   src/h264_nalu_reader.py  the Annex-B start-code scanner and segmenter *)
(*   src/mp4writer.py         MP4Writer (placeholder-moov strategy)        *)
(*   src/main.py              the driver that feeds the writer             *)
(*                                                                         *)
(* Byte strings are sequences of integers 0..255 (index i of Python is     *)
(* index i+1 here).  The output file is modelled by its cursor, its size   *)
(* and the extents written into it: `boxes` for boxes and box headers,     *)
(* `samples` for the sample data written by _write_frame.                  *)
(***************************************************************************)
EXTENDS Integers, Sequences, FiniteSets, TLC

VARIABLES writer,      \* the MP4Writer object, its output file included
          calls,       \* number of calls made on the writer so far
          last_op,     \* the last call on the writer: [op, nalu]
          result,      \* how that call ended: Ok or the error raised
          finalized,   \* finalize() has returned normally (file closed)
          input,       \* the bytes of the H.264 file
          buffer,      \* read_nalu_from_file: the buffer still to segment
          nalu_list,   \* read_nalu_from_file: the records produced so far
          rpc,         \* read_nalu_from_file: "idle", "loop" or "done"
          scan,        \* the last find_nalu_start call: [start, res]
          mpc,         \* main: "idle", "read", "feed", "done" or "raised"
          idx,         \* main: index of the next record of the for loop
          main_exc     \* main: the exception that ended it, if any

wvars == <<writer, calls, last_op, result, finalized>>
rvars == <<input, buffer, nalu_list, rpc>>
mvars == <<mpc, idx, main_exc>>
vars == <<wvars, rvars, scan, mvars>>

(***************************************************************************)
(* Bounds of the model.                                                    *)
(***************************************************************************)
MaxCalls == 6
BigLen == 16000
MaxLen == 8

(***************************************************************************)
(* Program constants.                                                      *)
(***************************************************************************)
MOOV_RESERVED == 16384
MDAT_HEADER == 8
FTYP_DATA_LEN == 20
\* the arguments main passes to MP4Writer
WIDTH == 1280
HEIGHT == 720
FPS == 16
TIMESCALE == 1000

None == <<>>
Ok == "ok"
ErrIdrNoParams == "ValueError: IDR frame found but SPS/PPS not available"
ErrNoParams == "ValueError: SPS/PPS not available for MP4 creation"
ErrNoFrames == "ValueError: No frame data available for MP4 creation"

Max(a, b) == IF a >= b THEN a ELSE b
Min(a, b) == IF a <= b THEN a ELSE b

RECURSIVE SumSeq(_)
SumSeq(s) == IF s = <<>> THEN 0 ELSE Head(s) + SumSeq(Tail(s))

(***************************************************************************)
(* The output file object: write() at the cursor, seek(), tell().          *)
(***************************************************************************)
FileWrite(out, n) ==
    [out EXCEPT !.tell = out.tell + n,
                !.size = Max(out.size, out.tell + n)]

FileSeek(out, p) == [out EXCEPT !.tell = p]

\* struct.pack('>I', v): a 4-byte big-endian field, modelled by the value it
\* holds.  Python raises struct.error for v outside 0..2^32-1; every value
\* packed within the bounds of this model is in that range.
pack_I(v) == v

(***************************************************************************)
(* MP4Writer._write_box: writes size, tag and data, advances the estimate. *)
(***************************************************************************)
_write_box(w, box_type, data_len, body) ==
    LET box_size == 8 + data_len
        at == w.output.tell
        o1 == FileWrite(FileWrite(FileWrite(w.output, 4), 4), data_len)
    IN  [w EXCEPT !.output = [o1 EXCEPT !.boxes = Append(@,
                                  [type |-> box_type, at |-> at,
                                   size |-> pack_I(box_size),
                                   written |-> box_size, body |-> body])],
                  !.current_offset = w.current_offset + box_size]

_write_ftyp(w) == _write_box(w, "ftyp", FTYP_DATA_LEN, <<>>)

(***************************************************************************)
(* MP4Writer.__init__                                                      *)
(***************************************************************************)
NewWriter ==
    LET w0 == [width |-> WIDTH, height |-> HEIGHT, fps |-> FPS,
               timescale |-> TIMESCALE,
               frame_duration |-> TIMESCALE \div FPS,
               sps |-> None, pps |-> None, frame_count |-> 0,
               sample_sizes |-> <<>>, sample_offsets |-> <<>>,
               current_offset |-> 0, nalu_buffer |-> <<>>,
               i_frame_ids |-> <<>>, moov_position |-> 0,
               output |-> [tell |-> 0, size |-> 0,
                           boxes |-> <<>>, samples |-> <<>>]]
        w1 == _write_ftyp(w0)
        w2 == [w1 EXCEPT !.moov_position = w1.current_offset]
        w3 == [w2 EXCEPT !.current_offset = @ + MOOV_RESERVED + MDAT_HEADER]
    IN  [w3 EXCEPT !.output = FileWrite(@, MOOV_RESERVED + MDAT_HEADER)]

(***************************************************************************)
(* MP4Writer._write_frame                                                  *)
(***************************************************************************)
RECURSIVE FrameSize(_)
FrameSize(buf) ==
    IF buf = <<>> THEN 0 ELSE (4 + Len(Head(buf))) + FrameSize(Tail(buf))

\* the write loop: per NALU a 4-byte length, the NALU, then the offset update
RECURSIVE WriteNalus(_, _)
WriteNalus(w, buf) ==
    IF buf = <<>> THEN w
    ELSE LET o == FileWrite(FileWrite(w.output, 4), Len(Head(buf)))
         IN  WriteNalus([w EXCEPT !.output = o,
                                  !.current_offset = w.current_offset + o.tell],
                        Tail(buf))

_write_frame(w) ==
    IF w.nalu_buffer = <<>> THEN w
    ELSE LET w1 == [w EXCEPT !.sample_offsets = Append(@, w.current_offset)]
             frame_size == FrameSize(w.nalu_buffer)
             at == w.output.tell
             w2 == WriteNalus(w1, w.nalu_buffer)
         IN  [w2 EXCEPT !.output.samples =
                            Append(@, [at |-> at, nalus |-> w.nalu_buffer,
                                       written |-> w2.output.tell - at]),
                        !.sample_sizes = Append(@, frame_size),
                        !.frame_count = @ + 1,
                        !.nalu_buffer = <<>>]

(***************************************************************************)
(* MP4Writer.add_nalu: returns the writer after the call and how it ended. *)
(***************************************************************************)
NaluType(nalu) == IF Len(nalu) > 0 THEN nalu[1] % 32 ELSE -1

add_nalu(w, nalu) ==
    LET nalu_type == NaluType(nalu)
    IN  IF nalu_type = 7 THEN [w |-> [w EXCEPT !.sps = nalu], res |-> Ok]
        ELSE IF nalu_type = 8 THEN [w |-> [w EXCEPT !.pps = nalu], res |-> Ok]
        ELSE IF nalu_type \in {1, 5} THEN
            LET w1 == [w EXCEPT !.nalu_buffer = Append(@, nalu)]
            IN  IF nalu_type = 5 /\ (w1.sps = None \/ w1.pps = None)
                THEN [w |-> w1, res |-> ErrIdrNoParams]
                ELSE LET w2 == _write_frame(w1)
                     IN  [w |-> IF nalu_type = 5
                                THEN [w2 EXCEPT !.i_frame_ids =
                                                   Append(@, w2.frame_count)]
                                ELSE w2,
                          res |-> Ok]
        ELSE [w |-> w, res |-> Ok]

(***************************************************************************)
(* The box serializer.  A serialized box is [type, size, body]: size is    *)
(* the value of its length field (8 + the payload length); body is the     *)
(* sequence of child boxes of a container, the sequence of 32-bit fields   *)
(* of a sample table (stts, stss, stsc, stsz, stco), and <<>> for the      *)
(* leaves whose payload is carried by its length alone.                   *)
(***************************************************************************)
_create_box(box_type, data_len, body) ==
    [type |-> box_type, size |-> pack_I(8 + data_len), body |-> body]

RECURSIVE BoxesLen(_)
BoxesLen(bs) == IF bs = <<>> THEN 0 ELSE Head(bs).size + BoxesLen(Tail(bs))

Container(box_type, children) ==
    _create_box(box_type, BoxesLen(children), children)

Table(box_type, fields) == _create_box(box_type, 4 * Len(fields), fields)

\* 6 I + 2 H + II + 9 i + 6 I + I
_write_mvhd(w) == _create_box("mvhd", 24 + 4 + 8 + 36 + 24 + 4, <<>>)

\* 6 I + II + 4 H + 9 i + II
_write_tkhd(w) == _create_box("tkhd", 24 + 8 + 8 + 36 + 8, <<>>)

\* 5 I + 2 H
_write_mdhd(w) == _create_box("mdhd", 20 + 4, <<>>)

\* I + I + 'vide' + III + 'VideoHandler\0'
_write_hdlr(w) == _create_box("hdlr", 4 + 4 + 4 + 12 + 13, <<>>)

\* I + HHHH
_write_vmhd(w) == _create_box("vmhd", 4 + 8, <<>>)

_write_dinf(w) ==
    LET url == _create_box("url ", 4, <<>>)
        dref == _create_box("dref", 4 + 4 + url.size, <<url>>)
    IN  Container("dinf", <<dref>>)

\* sps[1:4]: at most three bytes, fewer when the SPS is shorter than four
SpsProfileBytes(sps) == Min(Max(Len(sps) - 1, 0), 3)

\* the AVCC record's length; the caller has checked that SPS and PPS exist
_create_avcc(w) ==
    1 + SpsProfileBytes(w.sps) + 1 + 1 + 2 + Len(w.sps) + 1 + 2 + Len(w.pps)

_write_stsd(w) ==
    LET avc1_fixed == 4 + 2 + 2 + 2 + 2 + 12 + 4 + 4 + 4 + 4 + 2 + 32 + 2 + 2
        avcC == _create_box("avcC", _create_avcc(w), <<>>)
        avc1 == _create_box("avc1", avc1_fixed + avcC.size, <<avcC>>)
    IN  _create_box("stsd", 4 + 4 + avc1.size, <<avc1>>)

PackAll(vals) == [i \in 1..Len(vals) |-> pack_I(vals[i])]

_write_stts(w) ==
    Table("stts", PackAll(<<0, 1, w.frame_count, w.frame_duration>>))

_write_stss(w) ==
    Table("stss", PackAll(<<0, Len(w.i_frame_ids)>> \o w.i_frame_ids))

_write_stsc(w) == Table("stsc", PackAll(<<0, 1, 1, w.frame_count, 1>>))

_write_stsz(w) ==
    Table("stsz", PackAll(<<0, 0, Len(w.sample_sizes)>> \o w.sample_sizes))

_write_stco(w) == Table("stco", PackAll(<<0, 1, w.sample_offsets[1]>>))

_write_stbl(w) ==
    Container("stbl", <<_write_stsd(w), _write_stts(w), _write_stss(w),
                        _write_stsc(w), _write_stsz(w), _write_stco(w)>>)

_write_minf(w) ==
    Container("minf", <<_write_vmhd(w), _write_dinf(w), _write_stbl(w)>>)

_write_mdia(w) ==
    Container("mdia", <<_write_mdhd(w), _write_hdlr(w), _write_minf(w)>>)

_write_trak(w) == Container("trak", <<_write_tkhd(w), _write_mdia(w)>>)

\* seeks to moov_position and writes the moov box there
_write_moov(w) ==
    LET children == <<_write_mvhd(w), _write_trak(w)>>
        w1 == [w EXCEPT !.output = FileSeek(@, w.moov_position)]
    IN  _write_box(w1, "moov", BoxesLen(children), children)

(***************************************************************************)
(* MP4Writer.finalize: returns the writer after the call and how it ended. *)
(***************************************************************************)
finalize(w) ==
    LET w1 == IF w.nalu_buffer # <<>> THEN _write_frame(w) ELSE w
    IN  IF w1.sps = None \/ w1.pps = None THEN [w |-> w1, res |-> ErrNoParams]
        ELSE IF w1.frame_count = 0 THEN [w |-> w1, res |-> ErrNoFrames]
        ELSE
          LET mdat_len == w1.current_offset - w1.moov_position
                             - MOOV_RESERVED - MDAT_HEADER
              w2 == _write_moov([w1 EXCEPT !.current_offset = w1.moov_position])
              moov_len == w2.current_offset - w2.moov_position
              w3 == [w2 EXCEPT !.output = FileSeek(@, w2.moov_position + moov_len)]
              free_len == MOOV_RESERVED - moov_len
              \* b'\x00' * n is empty for n <= 0
              w4 == _write_box(w3, "free", Max(free_len - 8, 0), <<>>)
              mdat_at == w4.moov_position + MOOV_RESERVED
              o5 == FileWrite(FileWrite(FileSeek(w4.output, mdat_at), 4), 4)
          IN  [w |-> [w4 EXCEPT !.output = [o5 EXCEPT !.boxes = Append(@,
                               [type |-> "mdat", at |-> mdat_at,
                                size |-> pack_I(mdat_len + 8),
                                written |-> 8, body |-> <<>>])]],
               res |-> Ok]

(***************************************************************************)
(* h264_nalu_reader.find_nalu_start.  buffer[i] of Python is buffer[i+1].  *)
(* Returns <<position, length>>, and <<-1, 0>> for not found.  Every read   *)
(* is an application buf[i]: one outside 1..Len(buf) is an error in TLC.   *)
(***************************************************************************)
NotFound == <<-1, 0>>

\* mutant of find_nalu_start: loop bounds that also reach a start code ending
\* at the last byte of the buffer
RECURSIVE find_nalu_start_inclusive(_, _)
find_nalu_start_inclusive(buf, pos) ==
    IF ~(pos <= Len(buf) - 3) THEN NotFound
    ELSE IF buf[pos + 1] = 0 /\ buf[pos + 2] = 0 /\ buf[pos + 3] = 1
         THEN <<pos, 3>>
    ELSE IF /\ pos <= Len(buf) - 4
            /\ buf[pos + 1] = 0 /\ buf[pos + 2] = 0
            /\ buf[pos + 3] = 0 /\ buf[pos + 4] = 1
         THEN <<pos, 4>>
    ELSE find_nalu_start_inclusive(buf, pos + 1)

RECURSIVE find_nalu_start(_, _)
find_nalu_start(buf, pos) ==
    IF ~(pos < Len(buf) - 3) THEN NotFound
    ELSE IF buf[pos + 1] = 0 /\ buf[pos + 2] = 0 /\ buf[pos + 3] = 1
         THEN <<pos, 3>>
    ELSE IF /\ pos < Len(buf) - 4
            /\ buf[pos + 1] = 0 /\ buf[pos + 2] = 0
            /\ buf[pos + 3] = 0 /\ buf[pos + 4] = 1
         THEN <<pos, 4>>
    ELSE find_nalu_start(buf, pos + 1)

\* Python's buffer[a:b] for 0 <= a
Slice(buf, a, b) == SubSeq(buf, a + 1, Min(b, Len(buf)))

(***************************************************************************)
(* h264_nalu_reader.parse_nalu: [type, payload, remaining]; type NoType    *)
(* stands for Python's None.                                               *)
(***************************************************************************)
NoType == -1

parse_nalu(buf, start_pos, start_code_len) ==
    IF start_pos + start_code_len >= Len(buf)
    THEN [type |-> NoType, payload |-> <<>>, remaining |-> buf]
    ELSE LET nalu_header == buf[start_pos + start_code_len + 1]
             nalu_type == nalu_header % 32
             payload_start == start_pos + start_code_len + 1
             next_start_pos == find_nalu_start(buf, payload_start)[1]
         IN  IF next_start_pos = -1
             THEN [type |-> nalu_type,
                   payload |-> Slice(buf, payload_start, Len(buf)),
                   remaining |-> <<>>]
             ELSE [type |-> nalu_type,
                   payload |-> Slice(buf, payload_start, next_start_pos),
                   remaining |-> Slice(buf, next_start_pos, Len(buf))]

\* the record read_nalu_from_file appends for a parsed NALU
NaluRecord(nalu_type, nalu_payload, start_code_len) ==
    [type |-> nalu_type, payload |-> nalu_payload,
     start_code_len |-> start_code_len]

(***************************************************************************)
(* The inputs: every byte string of at most MaxLen bytes over bytes that   *)
(* make start codes (0, 1) and NALU headers whose type is 7: 7 itself and  *)
(* 103 = 0x67, the header of an SPS with nal_ref_idc 3.                    *)
(***************************************************************************)
Bytes == {0, 1, 7, 103}

ByteStrings == UNION {[1..n -> Bytes] : n \in 0..MaxLen}

(***************************************************************************)
(* The NALUs offered to the writer through its API: byte strings of every  *)
(* type the writer distinguishes.  SPS_BIG is a parameter set long enough  *)
(* for the moov box to outgrow the region reserved for it.                 *)
(***************************************************************************)
SPS == <<103, 66, 0, 30>>
SPS_BIG == [i \in 1..BigLen |-> IF i = 1 THEN 103 ELSE 0]
PPS == <<104, 238>>
IDR == <<101, 136>>
SLICE == <<65, 154, 1>>
SEI == <<6>>
EMPTY == <<>>

Nalus == {SPS, SPS_BIG, PPS, IDR, SLICE, SEI, EMPTY}

NoOp == [op |-> "none", nalu |-> <<>>]
NoScan == [start |-> -1, res |-> NotFound]
NoExc == "none"
KeyErrorHeader == "KeyError: 'header'"

WriterInit ==
    /\ writer = NewWriter
    /\ calls = 0
    /\ last_op = NoOp
    /\ result = Ok
    /\ finalized = FALSE

ReaderIdle ==
    /\ input = <<>>
    /\ buffer = <<>>
    /\ nalu_list = <<>>
    /\ rpc = "idle"

MainIdle ==
    /\ mpc = "idle"
    /\ idx = 0
    /\ main_exc = NoExc

(***************************************************************************)
(* Calls on the writer.                                                    *)
(***************************************************************************)
CallAddNalu(nalu) ==
    LET r == add_nalu(writer, nalu)
    IN  /\ writer' = r.w
        /\ result' = r.res
        /\ calls' = calls + 1
        /\ last_op' = [op |-> "add_nalu", nalu |-> nalu]
        /\ UNCHANGED finalized

CallFinalize ==
    LET r == finalize(writer)
    IN  /\ writer' = r.w
        /\ result' = r.res
        /\ finalized' = (r.res = Ok)
        /\ calls' = calls + 1
        /\ last_op' = [op |-> "finalize", nalu |-> <<>>]

(***************************************************************************)
(* Spec: the writer used through its API, any sequence of add_nalu calls   *)
(* and finalize calls (a call that raised leaves the writer usable).       *)
(***************************************************************************)
Init == WriterInit /\ ReaderIdle /\ MainIdle /\ scan = NoScan

AddNalu(nalu) ==
    /\ ~finalized
    /\ calls < MaxCalls
    /\ CallAddNalu(nalu)
    /\ UNCHANGED <<rvars, scan, mvars>>

Finalize ==
    /\ ~finalized
    /\ calls < MaxCalls
    /\ CallFinalize
    /\ UNCHANGED <<rvars, scan, mvars>>

Next == (\E nalu \in Nalus : AddNalu(nalu)) \/ Finalize

Spec == Init /\ [][Next]_vars

(***************************************************************************)
(* SpecAdd: a writer on which only add_nalu is called.                     *)
(***************************************************************************)
NextAdd == \E nalu \in Nalus : AddNalu(nalu)

SpecAdd == Init /\ [][NextAdd]_vars

(***************************************************************************)
(* SpecScan: find_nalu_start applied to a buffer and a start index.        *)
(***************************************************************************)
InitInput ==
    /\ input \in ByteStrings
    /\ buffer = input
    /\ nalu_list = <<>>

InitScan == WriterInit /\ InitInput /\ rpc = "idle" /\ MainIdle /\ scan = NoScan

Scan(start_pos) ==
    /\ scan = NoScan
    /\ scan' = [start |-> start_pos, res |-> find_nalu_start(input, start_pos)]
    /\ UNCHANGED <<wvars, rvars, mvars>>

NextScan == \E start_pos \in 0..(MaxLen + 1) : Scan(start_pos)

SpecScan == InitScan /\ [][NextScan]_vars

(***************************************************************************)
(* SpecRead: read_nalu_from_file, one action per iteration of its loop.    *)
(***************************************************************************)
InitRead == WriterInit /\ InitInput /\ rpc = "loop" /\ MainIdle /\ scan = NoScan

\* an iteration that finds a start code: parse, append, keep the remainder
ReadNalu ==
    /\ rpc = "loop"
    /\ LET found == find_nalu_start(buffer, 0)
           start_pos == found[1]
           start_code_len == found[2]
       IN  /\ start_pos # -1
           /\ LET p == parse_nalu(buffer, start_pos, start_code_len)
              IN  /\ nalu_list' =
                        IF p.type # NoType
                        THEN Append(nalu_list,
                                    NaluRecord(p.type, p.payload, start_code_len))
                        ELSE nalu_list
                  /\ buffer' = p.remaining
    /\ UNCHANGED <<input, rpc>>

\* the iteration that finds none: break, return nalu_list
ReadEnd ==
    /\ rpc = "loop"
    /\ find_nalu_start(buffer, 0)[1] = -1
    /\ rpc' = "done"
    /\ UNCHANGED <<input, buffer, nalu_list>>

NextRead ==
    \/ ReadNalu /\ UNCHANGED <<wvars, scan, mvars>>
    \/ ReadEnd /\ UNCHANGED <<wvars, scan, mvars>>

SpecRead == InitRead /\ [][NextRead]_vars

\* read_nalu_from_file is sequential code: while an iteration of its loop can
\* change the state, one is eventually executed
SpecReadFair == SpecRead /\ WF_vars(NextRead)

(***************************************************************************)
(* SpecMain: main() of the driver: read_nalu_from_file, then the writer is *)
(* constructed, fed one byte string per record, and finalized.  An         *)
(* exception is not caught: it ends main.                                  *)
(***************************************************************************)
InitMain ==
    /\ WriterInit /\ InitInput /\ rpc = "loop" /\ scan = NoScan
    /\ mpc = "read" /\ idx = 0 /\ main_exc = NoExc

MainReadNalu ==
    /\ mpc = "read"
    /\ ReadNalu
    /\ UNCHANGED <<wvars, scan, mvars>>

MainReadEnd ==
    /\ mpc = "read"
    /\ ReadEnd
    /\ mpc' = "feed"
    /\ idx' = 1
    /\ UNCHANGED <<wvars, scan, main_exc>>

\* one iteration of `for nalu in nalu_list`
MainFeed ==
    /\ mpc = "feed"
    /\ idx <= Len(nalu_list)
    /\ LET nalu == nalu_list[idx]
       IN  IF "header" \notin DOMAIN nalu
           THEN /\ main_exc' = KeyErrorHeader
                /\ mpc' = "raised"
                /\ UNCHANGED <<wvars, idx>>
           ELSE LET tmpbuff == <<nalu["header"]>> \o nalu.payload
                IN  /\ CallAddNalu(tmpbuff)
                    /\ main_exc' = add_nalu(writer, tmpbuff).res
                    /\ mpc' = IF add_nalu(writer, tmpbuff).res = Ok
                              THEN "feed" ELSE "raised"
                    /\ idx' = idx + 1
    /\ UNCHANGED <<rvars, scan>>

MainFinalize ==
    /\ mpc = "feed"
    /\ idx > Len(nalu_list)
    /\ CallFinalize
    /\ main_exc' = finalize(writer).res
    /\ mpc' = IF finalize(writer).res = Ok THEN "done" ELSE "raised"
    /\ UNCHANGED <<rvars, scan, idx>>

NextMain == MainReadNalu \/ MainReadEnd \/ MainFeed \/ MainFinalize

SpecMain == InitMain /\ [][NextMain]_vars

(***************************************************************************)
(* Vocabulary of the claims.                                               *)
(***************************************************************************)
\* the writer's sample state and its output
SampleState(w) ==
    <<w.nalu_buffer, w.sample_sizes, w.sample_offsets, w.frame_count,
      w.i_frame_ids, w.current_offset, w.output>>

ParamsMissing(w) == w.sps = None \/ w.pps = None

\* the box of a given type among a sequence of boxes
BoxOf(boxes, box_type) ==
    boxes[CHOOSE i \in 1..Len(boxes) : boxes[i].type = box_type]

\* the sample table of the moov box written by finalize
Stbl(w) ==
    LET moov == BoxOf(w.output.boxes, "moov")
        trak == BoxOf(moov.body, "trak")
        mdia == BoxOf(trak.body, "mdia")
        minf == BoxOf(mdia.body, "minf")
    IN  BoxOf(minf.body, "stbl")

\* the sum of the first n elements of a sequence
SumFirst(s, n) == SumSeq(SubSeq(s, 1, n))

HasIdr(sample) == \E k \in 1..Len(sample.nalus) : NaluType(sample.nalus[k]) = 5

\* the one-based indices, in increasing order, of the written samples that
\* hold a type-5 NALU
RECURSIVE IdrIndices(_, _)
IdrIndices(samples, k) ==
    IF k > Len(samples) THEN <<>>
    ELSE (IF HasIdr(samples[k]) THEN <<k>> ELSE <<>>)
             \o IdrIndices(samples, k + 1)

(***************************************************************************)
(* C1: an add_nalu call given a type-5 NALU while SPS or PPS is missing    *)
(* fails with the missing-parameter-sets error and changes neither the     *)
(* output nor the writer's sample state (buffer, sizes, offsets, frame     *)
(* count, sync list, write cursor).                                        *)
(***************************************************************************)
C1_RejectedIdrLeavesNoTrace ==
    [][(/\ calls' = calls + 1
        /\ last_op'.op = "add_nalu"
        /\ NaluType(last_op'.nalu) = 5
        /\ ParamsMissing(writer))
       => (/\ result' = ErrIdrNoParams
           /\ SampleState(writer') = SampleState(writer))]_vars

(***************************************************************************)
(* C2: a finalize call on a writer with zero samples (no slice NALU was    *)
(* ever buffered or written) fails with the no-samples error, whatever the *)
(* state of SPS and PPS.                                                   *)
(***************************************************************************)
C2_FinalizeEmptyIsNoSamples ==
    [][(/\ calls' = calls + 1
        /\ last_op'.op = "finalize"
        /\ writer.frame_count = 0
        /\ writer.nalu_buffer = <<>>)
       => result' = ErrNoFrames]_vars

(***************************************************************************)
(* C3: finalize never completes normally with moov bytes written beyond    *)
(* the region reserved for the moov box.                                   *)
(***************************************************************************)
C3_MoovStaysInReservedRegion ==
    finalized =>
        LET moov == BoxOf(writer.output.boxes, "moov")
        IN  moov.at + moov.written <= writer.moov_position + MOOV_RESERVED

(***************************************************************************)
(* C4: after a successful finalize the size field of the mdat header is 8  *)
(* plus the sum of the recorded sample sizes, so the mdat box ends at the  *)
(* end of the sample data.                                                 *)
(***************************************************************************)
C4_MdatSizeIsSampleBytesPlus8 ==
    finalized =>
        LET mdat == BoxOf(writer.output.boxes, "mdat")
        IN  mdat.size = 8 + SumSeq(writer.sample_sizes)

(***************************************************************************)
(* C5: after any sequence of add_nalu calls every recorded sample offset   *)
(* is the output position where the sample was written, that is            *)
(* sample_offsets[1] plus the sizes of the samples before it, and the      *)
(* offsets are strictly increasing.                                        *)
(***************************************************************************)
C5_OffsetsAreWritePositions ==
    LET w == writer
    IN  /\ Len(w.sample_offsets) = Len(w.output.samples)
        /\ \A i \in 1..Len(w.sample_offsets) :
              /\ w.sample_offsets[i] = w.output.samples[i].at
              /\ w.sample_offsets[i] =
                     w.sample_offsets[1] + SumFirst(w.sample_sizes, i - 1)
              /\ i > 1 => w.sample_offsets[i - 1] < w.sample_offsets[i]

(***************************************************************************)
(* The file after finalize.  The extents are logged in write order: the    *)
(* samples are written before every box but ftyp, and a later write over   *)
(* an extent replaces the bytes logged for it.                             *)
(***************************************************************************)
Overlap(at1, len1, at2, len2) ==
    len1 > 0 /\ len2 > 0 /\ at1 < at2 + len2 /\ at2 < at1 + len1

\* no box written by finalize (moov, free, the mdat header) lies over the
\* bytes of a sample
SamplesIntact(w) ==
    \A i \in 1..Len(w.output.samples) :
        \A k \in 2..Len(w.output.boxes) :
            ~Overlap(w.output.samples[i].at, w.output.samples[i].written,
                     w.output.boxes[k].at, w.output.boxes[k].written)

\* no box written after another one lies over its bytes: the moov box, the
\* sample tables in it included, is in the file as it was serialized
BoxesIntact(w) ==
    \A j, k \in 1..Len(w.output.boxes) :
        j < k => ~Overlap(w.output.boxes[j].at, w.output.boxes[j].written,
                          w.output.boxes[k].at, w.output.boxes[k].written)

\* the tables as serialized agree with the positions and sizes at which the
\* samples were written
ChunkTablesMatchWrites(w) ==
    LET samples == w.output.samples
        n == Len(samples)
        mdat == BoxOf(w.output.boxes, "mdat")
        stco == BoxOf(Stbl(w).body, "stco").body
        stsc == BoxOf(Stbl(w).body, "stsc").body
        stsz == BoxOf(Stbl(w).body, "stsz").body
        sizes == SubSeq(stsz, 4, Len(stsz))
    IN  /\ n = w.frame_count
        /\ Len(stco) = 3 /\ stco[2] = 1
        /\ stco[3] = samples[1].at
        /\ stco[3] = mdat.at + mdat.written
        /\ stsc = <<0, 1, 1, n, 1>>
        /\ stsz[2] = 0 /\ stsz[3] = n /\ Len(sizes) = n
        /\ \A i \in 1..n :
              /\ sizes[i] = samples[i].written
              /\ sizes[i] = FrameSize(samples[i].nalus)
              /\ samples[i].at = stco[3] + SumFirst(sizes, i - 1)

(***************************************************************************)
(* C6: in every finalized container the chunk tables agree with the bytes  *)
(* of the file: stco holds one chunk offset, the position right after the  *)
(* mdat header where the first sample was written; stsc holds the single   *)
(* entry (1, frame_count, 1); stsz holds the frame_count sizes in write    *)
(* order; every sample lies at stco[0] plus the stsz sizes of the samples  *)
(* before it; and the file holds the tables and the samples there, none    *)
(* of them written over.                                                   *)
(***************************************************************************)
C6_ChunkTablesMatchWrittenBytes ==
    finalized =>
        /\ ChunkTablesMatchWrites(writer)
        /\ SamplesIntact(writer)
        /\ BoxesIntact(writer)

(***************************************************************************)
(* C7: after any sequence of add_nalu calls the sync-sample list holds     *)
(* exactly the one-based indices of the samples that hold a type-5 NALU,   *)
(* in strictly increasing order.                                           *)
(***************************************************************************)
C7_SyncListIsIdrSamples ==
    writer.i_frame_ids = IdrIndices(writer.output.samples, 1)

(***************************************************************************)
(* Start codes as the claims describe them: 00 00 01 or 00 00 00 01        *)
(* beginning at (zero-based) position p and lying inside the buffer.       *)
(***************************************************************************)
IsCode3(b, p) ==
    p >= 0 /\ p + 3 <= Len(b) /\ b[p + 1] = 0 /\ b[p + 2] = 0 /\ b[p + 3] = 1

IsCode4(b, p) ==
    /\ p >= 0 /\ p + 4 <= Len(b)
    /\ b[p + 1] = 0 /\ b[p + 2] = 0 /\ b[p + 3] = 0 /\ b[p + 4] = 1

CodeAt(b, p) == IsCode3(b, p) \/ IsCode4(b, p)

\* the first start code at or after start: <<position, length>> or NotFound
NextCode(b, start) ==
    IF \E p \in start..Len(b) : CodeAt(b, p)
    THEN LET p == CHOOSE q \in start..Len(b) :
                      CodeAt(b, q) /\ \A r \in start..(q - 1) : ~CodeAt(b, r)
         IN  <<p, IF IsCode4(b, p) THEN 4 ELSE 3>>
    ELSE NotFound

\* the start-code-delimited units of a buffer from position p on: a start
\* code followed by at least a header byte, up to the next start code or
\* the end of the buffer; [at, len, end] with end exclusive
RECURSIVE Units(_, _)
Units(b, p) ==
    LET c == NextCode(b, p)
    IN  IF c = NotFound \/ c[1] + c[2] >= Len(b) THEN <<>>
        ELSE LET nxt == NextCode(b, c[1] + c[2] + 1)
                 end == IF nxt = NotFound THEN Len(b) ELSE nxt[1]
             IN  <<[at |-> c[1], len |-> c[2], end |-> end]>> \o Units(b, end)

StartCodeBytes(n) == IF n = 4 THEN <<0, 0, 0, 1>> ELSE <<0, 0, 1>>

\* the header byte a record carries: its header field if it has one, and
\* otherwise what its type field keeps of it
RecordHeader(rec) ==
    IF "header" \in DOMAIN rec THEN rec["header"] ELSE rec.type

Rebuild(rec) ==
    StartCodeBytes(rec.start_code_len) \o <<RecordHeader(rec)>> \o rec.payload

(***************************************************************************)
(* C8: read_nalu_from_file returns one record per start-code-delimited     *)
(* unit of the input, in stream order, and start code + header byte +      *)
(* payload rebuilt from each record is the region of the input its unit    *)
(* occupies.                                                               *)
(***************************************************************************)
C8_RecordsRebuildTheInput ==
    rpc = "done" =>
        LET units == Units(input, 0)
        IN  /\ Len(nalu_list) = Len(units)
            /\ \A k \in 1..Len(units) :
                  Rebuild(nalu_list[k]) =
                      SubSeq(input, units[k].at + 1, units[k].end)

(***************************************************************************)
(* C9: find_nalu_start returns the position and length of the first start  *)
(* code that begins at or after start_pos inside the buffer (length 4 for  *)
(* the 4-byte form), and not-found only when there is none.                *)
(***************************************************************************)
C9_ScannerFindsNextStartCode ==
    scan # NoScan => scan.res = NextCode(input, scan.start)

(***************************************************************************)
(* C10: main hands add_nalu, for every record of read_nalu_from_file, the  *)
(* record's header byte followed by its payload, and never fails on a      *)
(* field the records do not carry.                                         *)
(***************************************************************************)
C10_DriverFeedsEveryRecord ==
    /\ main_exc # KeyErrorHeader
    /\ (mpc = "feed" /\ idx > 1) =>
          /\ last_op.op = "add_nalu"
          /\ NaluType(last_op.nalu) = nalu_list[idx - 1].type
          /\ Tail(last_op.nalu) = nalu_list[idx - 1].payload

(***************************************************************************)
(* C11: the loop of read_nalu_from_file terminates on every input: in      *)
(* every iteration in which find_nalu_start reports a start code,          *)
(* parse_nalu returns a type (not None) and a remaining buffer strictly    *)
(* shorter than the current one, and the loop eventually takes its         *)
(* not-found exit.                                                         *)
(***************************************************************************)
IterationShrinksBuffer ==
    rpc = "loop" =>
        LET found == find_nalu_start(buffer, 0)
        IN  found[1] # -1 =>
                LET p == parse_nalu(buffer, found[1], found[2])
                IN  p.type # NoType /\ Len(p.remaining) < Len(buffer)

C11_SegmentationTerminates ==
    /\ []IterationShrinksBuffer
    /\ <>(rpc = "done")

\* the loop has ended after two iterations that each produced a record
C11_Witness == rpc = "done" /\ Len(nalu_list) = 2

====
